---------------------------- MODULE Spec2Model ----------------------------
(***************************************************************************)
(* A model of the job-discovery crawler core of apprscan:                  *)
(*   - apply_diff          (src/apprscan/jobs/pipeline.py)   : SpecDiff    *)
(*   - fetch_url           (src/apprscan/jobs/fetch.py)      : SpecFetch   *)
(*   - crawl_jobs_pipeline (src/apprscan/jobs/pipeline.py)   : SpecFleet   *)
(*   - RobotsChecker, crawl_domain, extract_jobs_generic     : Spec        *)
(* Each specification drives one component; the variables of the other     *)
(* components stay at their initial values.                                *)
(***************************************************************************)
EXTENDS Integers, Sequences, FiniteSets, TLC

VARIABLES
    \* ---- apply_diff (SpecDiff) ----
    knownParquet,   \* the file known_path: [exists, rows]
    knownCsv,       \* the file known_path.with_suffix(".csv"): [exists, rows]
    parquetEngine,  \* whether DataFrame.to_parquet/read_parquet find an engine
    hashSeed,       \* the hash salt of the running Python process
    diffCall,       \* the last apply_diff call: input, loaded index, results
    diffPrev,       \* the apply_diff call before the last one
    activity_df,    \* the activity summary of the run that made the last call
    \* ---- fetch_url (SpecFetch) ----
    now,            \* time.time(), in seconds
    rate_limit_state, \* the caller's map domain -> time of the last fetch
    minInterval,    \* 1 / req_per_second_per_domain, in seconds
    fetch,          \* the running fetch_url call: pc, url, attempt, backoff
    fetchResult,    \* what the last finished fetch_url call returned
    lastReq,        \* per domain: when the latest HTTP request was sent
    prevReq,        \* per domain: when the request before the latest was sent
    fetchCalls,     \* number of fetch_url calls started
    \* ---- crawl_jobs_pipeline (SpecFleet) ----
    fleetIn,        \* the arguments: companies_df, domain_map, max_domains, ...
    fleet,          \* the main thread: pc, row index, processed, merged results
    tasks,          \* the futures submitted to the executor, in submission order
    clock,          \* time.time() during the fleet run
    domainReq,      \* per domain: when the latest two requests were sent
    robotsReq,      \* per domain: the robots.txt requests of the batch
    \* ---- crawl_domain (Spec) ----
    crawlIn,        \* the arguments: company, domain, max_pages
    pc,             \* where crawl_domain stands
    stats,          \* the CrawlStats of the crawl
    robots_cache,   \* RobotsChecker.cache: host -> parser
    robots_fetch,   \* per host: how the request for its robots.txt ended
    seeds,          \* the seed list
    seedIdx,        \* the position of the loop over seeds
    all_jobs,       \* the postings gathered by the seed loop
    generic,        \* the running extract_jobs_generic call
    requests,       \* every HTTP request sent, in order
    allowedUrls,    \* the URLs a can_fetch_detail call has allowed
    extractLog,     \* per fetched seed page: what each extractor did
    returned        \* the postings crawl_domain returned

diffVars == <<knownParquet, knownCsv, parquetEngine, hashSeed, diffCall, diffPrev,
              activity_df>>

fetchVars == <<now, rate_limit_state, minInterval, fetch, fetchResult, lastReq,
               prevReq, fetchCalls>>

fleetVars == <<fleetIn, fleet, tasks, clock, domainReq, robotsReq>>

crawlVars == <<crawlIn, pc, stats, robots_cache, robots_fetch, seeds, seedIdx, all_jobs,
               generic, requests, allowedUrls, extractLog, returned>>

vars == <<diffVars, fetchVars, fleetVars, crawlVars>>

(***************************************************************************)
(* Strings whose content matters are sequences of one-character strings.   *)
(***************************************************************************)
RECURSIVE SeqToSet(_)
SeqToSet(s) == IF s = <<>> THEN {} ELSE {Head(s)} \cup SeqToSet(Tail(s))

RECURSIVE SelectIdx(_, _, _)
\* the row numbers i..Len(s) of s whose flag is TRUE, in order
SelectIdx(s, i, keep) ==
    IF i > Len(s) THEN <<>>
    ELSE (IF keep[i] THEN <<s[i]>> ELSE <<>>) \o SelectIdx(s, i + 1, keep)

\* Python's None in a field that holds a character sequence
None == <<"<None>">>

UpperChars == <<"D", "F", "S", "O", "Q", "A">>
LowerChars == <<"d", "f", "s", "o", "q", "a">>
Whitespace == {" ", "\t"}

\* str.lower() on one character
LowerChar(c) ==
    IF \E i \in DOMAIN UpperChars : UpperChars[i] = c
    THEN LowerChars[CHOOSE i \in DOMAIN UpperChars : UpperChars[i] = c]
    ELSE c

Lower(s) == [i \in DOMAIN s |-> LowerChar(s[i])]

RECURSIVE LStrip(_)
LStrip(s) == IF s # <<>> /\ Head(s) \in Whitespace THEN LStrip(Tail(s)) ELSE s

RECURSIVE RStrip(_)
RStrip(s) ==
    IF s # <<>> /\ s[Len(s)] \in Whitespace THEN RStrip(SubSeq(s, 1, Len(s) - 1)) ELSE s

\* str.strip()
Strip(s) == RStrip(LStrip(s))

RECURSIVE CollapseWs(_)
\* re.sub(r"\s+", " ", s)
CollapseWs(s) ==
    IF s = <<>> THEN <<>>
    ELSE IF Head(s) \in Whitespace
         THEN <<" ">> \o CollapseWs(LStrip(s))
         ELSE <<Head(s)>> \o CollapseWs(Tail(s))

RECURSIVE Remove(_, _)
\* s.replace(pat, "")
Remove(s, pat) ==
    IF Len(s) < Len(pat) THEN s
    ELSE IF SubSeq(s, 1, Len(pat)) = pat
         THEN Remove(SubSeq(s, Len(pat) + 1, Len(s)), pat)
         ELSE <<Head(s)>> \o Remove(Tail(s), pat)

CommaFinland == <<",", " ", "f", "i", "n", "l", "a", "n", "d">>
CommaSuomi == <<",", " ", "s", "u", "o", "m", "i">>

\* apply_diff.fingerprint.norm: str(val or "") lowered, stripped, whitespace
\* collapsed, country suffixes removed
norm(val) ==
    LET s0 == IF val = None THEN <<>> ELSE val
        s1 == Strip(Lower(s0))
        s2 == CollapseWs(s1)
    IN  Remove(Remove(s2, CommaFinland), CommaSuomi)

\* Python's hash() of a tuple of str: the str hash is salted with the
\* per-process hash seed (PYTHONHASHSEED, random unless the environment
\* fixes it); equal salt and equal key give the equal value.
PyHash(seed, key) == [salt |-> seed, key |-> key]

\* apply_diff.fingerprint
fingerprintOf(seed, row) ==
    PyHash(seed, <<norm(row.job_title), norm(row.location_text),
                   norm(row.posted_date), norm(row.company_domain)>>)

(***************************************************************************)
(* fetch_url: rate limiting, retries, size guard.                          *)
(***************************************************************************)
MaxCalls == 2       \* fetch_url calls in one behaviour
MaxIdle == 14       \* the clock value up to which idle time is let pass
StartTime == 6      \* time.time() when the first call starts
max_retries == 3
InitialBackoff == 1
max_bytes == 2

FetchDomains == {"a.fi", "b.fi"}
\* the values of min_interval tried: req_per_second_per_domain = 1, 1/2, 1/5
MinIntervals == {1, 2, 5}
Statuses == {200, 404, 429, 503}
\* what session.get does: a response with a status and a body size, or a
\* requests.RequestException (timeout, DNS, connection reset)
NetErr == [status |-> 0, size |-> 0, err |-> TRUE]
Response(st, sz) == [status |-> st, size |-> sz, err |-> FALSE]
Outcomes == {NetErr} \cup {Response(st, 1) : st \in Statuses} \cup {Response(200, max_bytes + 1)}

\* mutant: every error status is retried
_should_retry_every_error(status) == status >= 400

_should_retry(status) == status = 429 \/ (500 <= status /\ status < 600)

Max(a, b) == IF a >= b THEN a ELSE b

\* wait = max(0, min_interval - (time.time() - last))
RateWait(interval, t, last) == Max(0, interval - (t - last))

\* of the running call: attempts counted, the next sleep, requests sent, how
\* many of them raised, and the sleeps taken before retries
NoFetch == [pc |-> "idle", domain |-> "", attempt |-> 0, backoff |-> 0, sent |-> 0,
            errs |-> 0, waits |-> <<>>]
NoResult == [done |-> FALSE, ok |-> FALSE, reason |-> <<"none", 0>>, sent |-> 0,
             status |-> 0, errs |-> 0, waits |-> <<>>]

\* mutant: the loop admits one more pass
LoopContinuesOneMore(attempt) == attempt <= max_retries

\* while attempt < max_retries
LoopContinues(attempt) == attempt < max_retries

\* fetch_url up to the retry loop: the robots pre-check, the rate-limit sleep
FetchCall(d, robotsAllows) ==
    /\ fetch.pc = "idle"
    /\ fetchCalls < MaxCalls
    /\ fetchCalls' = fetchCalls + 1
    /\ IF ~robotsAllows
       THEN /\ fetchResult' = [done |-> TRUE, ok |-> FALSE,
                               reason |-> <<"robots_disallow", 0>>, sent |-> 0,
                               status |-> 0, errs |-> 0, waits |-> <<>>]
            /\ UNCHANGED <<now, fetch>>
       ELSE /\ now' = now + RateWait(minInterval, now, rate_limit_state[d])
            /\ fetch' = [pc |-> "try", domain |-> d, attempt |-> 0,
                         backoff |-> InitialBackoff, sent |-> 0, errs |-> 0,
                         waits |-> <<>>]
            /\ fetchResult' = NoResult
    /\ UNCHANGED <<rate_limit_state, minInterval, lastReq, prevReq>>
    /\ UNCHANGED <<diffVars, fleetVars, crawlVars>>

\* the failure branch of one pass of the retry loop: attempt += 1,
\* sleep(backoff), backoff *= 2, and the loop's exit when no attempt is left
RetryStep(t, out) ==
    /\ now' = t + fetch.backoff
    /\ LET errs == fetch.errs + (IF out.err THEN 1 ELSE 0)
           waits == Append(fetch.waits, fetch.backoff)
       IN  IF LoopContinues(fetch.attempt + 1)
           THEN /\ fetch' = [fetch EXCEPT !.attempt = @ + 1, !.backoff = @ * 2,
                                          !.sent = @ + 1, !.errs = errs,
                                          !.waits = waits]
                /\ UNCHANGED fetchResult
           ELSE /\ fetch' = NoFetch
                /\ fetchResult' = [done |-> TRUE, ok |-> FALSE,
                                   reason |-> <<"max_retries_exceeded", 0>>,
                                   sent |-> fetch.sent + 1, status |-> out.status,
                                   errs |-> errs, waits |-> waits]
    /\ UNCHANGED rate_limit_state

\* one pass of the retry loop: session.get, which takes latency seconds
FetchAttempt(out, latency) ==
    /\ fetch.pc = "try"
    /\ LoopContinues(fetch.attempt)
    /\ lastReq' = [lastReq EXCEPT ![fetch.domain] = now]
    /\ prevReq' = [prevReq EXCEPT ![fetch.domain] = lastReq[fetch.domain]]
    /\ LET t == now + latency
       IN  IF out.err
           THEN RetryStep(t, out)
           ELSE IF _should_retry(out.status) /\ fetch.attempt < max_retries - 1
           THEN RetryStep(t, out)
           ELSE /\ now' = t
                /\ rate_limit_state' = [rate_limit_state EXCEPT ![fetch.domain] = t]
                /\ fetch' = NoFetch
                /\ fetchResult' =
                     [done |-> TRUE,
                      ok |-> out.status < 400 /\ out.size <= max_bytes,
                      reason |-> IF out.status >= 400 THEN <<"http", out.status>>
                                 ELSE IF out.size > max_bytes
                                      THEN <<"response_too_large", 0>>
                                      ELSE <<"none", 0>>,
                      sent |-> fetch.sent + 1, status |-> out.status,
                      errs |-> fetch.errs, waits |-> fetch.waits]
    /\ UNCHANGED <<minInterval, fetchCalls>>
    /\ UNCHANGED <<diffVars, fleetVars, crawlVars>>

\* time passing between two fetch_url calls
Elapse ==
    /\ fetch.pc = "idle"
    /\ now < MaxIdle
    /\ now' = now + 1
    /\ UNCHANGED <<rate_limit_state, minInterval, fetch, fetchResult, lastReq,
                   prevReq, fetchCalls>>
    /\ UNCHANGED <<diffVars, fleetVars, crawlVars>>

FetchNext ==
    \/ \E d \in FetchDomains, r \in BOOLEAN : FetchCall(d, r)
    \/ \E out \in Outcomes, l \in 0..1 : FetchAttempt(out, l)
    \/ Elapse

(***************************************************************************)
(* URLs, the robots gate (RobotsChecker) and the pages a server answers.   *)
(***************************************************************************)
\* a URL: https://<host>/<path segments>[/][?<query>]; the query is given by
\* the name of its parameter ("" when the URL has none)
Url(h, p, sl, q) == [host |-> h, path |-> p, slash |-> sl, query |-> q]
Plain(h, p) == Url(h, p, FALSE, "")

CrawlDomain == "x.fi"
OtherHost == "boards.io"
Hosts == {CrawlDomain, OtherHost}

\* whether sequence p starts with sequence r
IsPrefix(r, p) == Len(r) <= Len(p) /\ SubSeq(p, 1, Len(r)) = r

\* what RobotFileParser.read() leaves behind for each way the request for
\* robots.txt can end: an exception other than HTTPError propagates; 401 and
\* 403 set disallow_all; any other 4xx sets allow_all; a 5xx sets nothing and
\* leaves last_checked at 0; a 200 is parsed into the Disallow prefixes that
\* apply to the user agent
RuleSets == {{}, {<<"careers">>}, {<<"jobs">>}, {<<>>}, {<<"sitemap.xml">>, <<"careers">>}}
RobotsOutcomes ==
    {[kind |-> k, rules |-> {}] : k \in {"exception", "http_403", "http_404", "http_503"}}
        \cup {[kind |-> "parsed", rules |-> R] : R \in RuleSets}

Parser(err, dis, alw, chk, rules) ==
    [cached |-> TRUE, apprscan_error |-> err, disallow_all |-> dis, allow_all |-> alw,
     last_checked |-> chk, rules |-> rules]
NoParser == [cached |-> FALSE, apprscan_error |-> FALSE, disallow_all |-> FALSE,
             allow_all |-> FALSE, last_checked |-> FALSE, rules |-> {}]

\* RobotsChecker._fetch_parser: parser.read(), and on an exception a parser
\* of "User-agent: * / Disallow: /" marked robots_unavailable
_fetch_parser(out) ==
    CASE out.kind = "exception" -> Parser(TRUE, FALSE, FALSE, TRUE, {<<>>})
      [] out.kind = "http_403"  -> Parser(FALSE, TRUE, FALSE, FALSE, {})
      [] out.kind = "http_404"  -> Parser(FALSE, FALSE, TRUE, FALSE, {})
      [] out.kind = "http_503"  -> Parser(FALSE, FALSE, FALSE, FALSE, {})
      [] OTHER                  -> Parser(FALSE, FALSE, FALSE, TRUE, out.rules)

\* RobotFileParser.can_fetch(user_agent, url)
ParserCanFetch(parser, url) ==
    IF parser.disallow_all THEN FALSE
    ELSE IF parser.allow_all THEN TRUE
    ELSE IF ~parser.last_checked THEN FALSE
    ELSE \A r \in parser.rules : ~IsPrefix(r, url.path)

NoRule == "None"

\* RobotsChecker.can_fetch_detail, given the cached parser of the URL's host
can_fetch_detail(parser, url) ==
    IF parser.apprscan_error THEN [allowed |-> FALSE, rule |-> "robots_unavailable"]
    ELSE IF parser.disallow_all THEN [allowed |-> FALSE, rule |-> "Disallow: /"]
    ELSE IF ~ParserCanFetch(parser, url) THEN [allowed |-> FALSE, rule |-> "blocked_by_robots"]
    ELSE [allowed |-> TRUE, rule |-> NoRule]

\* apprscan.jobs.constants (the skip reasons of a robots denial)
ROBOTS_DISALLOW_ALL == "Disallow: /"
ROBOTS_DISALLOW_URL == "blocked_by_robots"

\* ---- pages ----
\* an anchor of a page: its resolved target urljoin(base_url, href) and
\* whether its href or text carries a job hint
Anchor(u, hinted) == [target |-> u, hinted |-> hinted]
\* a JobPosting object of a JSON-LD block: its title and its url (resolved)
LdItem(title, u) == [title |-> title, url |-> u]

Page(ats, jsonld, links, consent, h1) ==
    [ats |-> ats, jsonld |-> jsonld, links |-> links, consent |-> consent, h1 |-> h1]

UCareers == Plain(CrawlDomain, <<"careers">>)
UJobs == Plain(CrawlDomain, <<"jobs">>)
UJob1 == Plain(CrawlDomain, <<"jobs", "1">>)
UJob1Slash == Url(CrawlDomain, <<"jobs", "1">>, TRUE, "")
UJobsDept == Url(CrawlDomain, <<"jobs">>, FALSE, "department_id")   \* /jobs?department_id=3
UTeam == Plain(CrawlDomain, <<"team">>)
UBoardJob == Plain(OtherHost, <<"acme", "7">>)

PEmpty == Page("none", <<>>, <<>>, FALSE, "none")
PAts == Page("greenhouse", <<>>, <<>>, FALSE, "none")
PJsonLd == Page("none", <<LdItem("Dev", UJob1)>>, <<Anchor(UJob1, TRUE)>>, FALSE, "none")
PLinks == Page("none", <<>>, <<Anchor(UJob1, TRUE), Anchor(UTeam, FALSE)>>, FALSE, "none")
PMixed == Page("none", <<>>,
               <<Anchor(UJobs, TRUE), Anchor(UJobsDept, TRUE), Anchor(UBoardJob, TRUE)>>,
               FALSE, "none")
\* a listing that links one posting twice, with and without trailing slash
PTwice == Page("none", <<>>,
               <<Anchor(UJob1, TRUE), Anchor(UJob1Slash, TRUE), Anchor(UTeam, TRUE)>>,
               FALSE, "none")
\* a listing that links two postings, one of them on a job board
PTwo == Page("none", <<>>, <<Anchor(UJob1, TRUE), Anchor(UBoardJob, TRUE)>>, FALSE, "none")
ListingPages == {PLinks, PMixed, PTwice, PTwo}
PDetail == Page("none", <<>>, <<>>, FALSE, "Developer")
PNoHeading == Page("none", <<>>, <<>>, FALSE, "none")
PConsent == Page("none", <<>>, <<>>, TRUE, "Cookies")

\* what fetch_url returns: (FetchResult, None) or (None, reason); redirect
\* holds the URL the server redirected to, if it did
Fetched(page, redirect) == [ok |-> TRUE, status |-> 200, redirect |-> redirect, page |-> page,
                            reason |-> "none"]
Failed(reason) == [ok |-> FALSE, status |-> 0, redirect |-> <<>>, page |-> PEmpty,
                   reason |-> reason]
FailReasons == {"http_404", "max_retries_exceeded", "response_too_large"}

\* FetchResult.final_url of the answer to a request for u
FinalUrl(ans, u) == IF ans.redirect = <<>> THEN u ELSE ans.redirect[1]

RootAnswers == {Failed(r) : r \in FailReasons} \cup {Fetched(p, <<>>) : p \in {PEmpty, PAts}}
SitemapAnswers == {Failed("http_404"), Fetched(PEmpty, <<>>)}
SeedAnswers ==
    {Failed("http_404")} \cup {Fetched(p, <<>>) : p \in {PEmpty, PJsonLd, PLinks, PMixed}}
DetailAnswers ==
    {Failed("http_404"), Fetched(PConsent, <<>>), Fetched(PNoHeading, <<>>)}
        \cup {Fetched(PDetail, r) : r \in {<<>>, <<UJob1>>}}

(***************************************************************************)
(* crawl_domain and extract_jobs_generic.                                  *)
(***************************************************************************)
MaxPages == 3       \* the largest max_pages tried
max_detail_pages == 20
SitemapMaxUrls == 200

Take(seq, n) == SubSeq(seq, 1, IF Len(seq) < n THEN Len(seq) ELSE n)

RECURSIVE Dedupe(_, _)
\* list(dict.fromkeys(seq)): the first occurrence of each element, in order
Dedupe(seq, seen) ==
    IF seq = <<>> THEN <<>>
    ELSE IF Head(seq) \in seen THEN Dedupe(Tail(seq), seen)
         ELSE <<Head(seq)>> \o Dedupe(Tail(seq), seen \cup {Head(seq)})

base_url(domain) == Plain(domain, <<>>)
sitemap_url(domain) == Plain(domain, <<"sitemap.xml">>)
robots_url(host) == Plain(host, <<"robots.txt">>)

\* discovery.discover_paths: the conventional career pages of the domain
discover_paths(domain) == <<Plain(domain, <<"careers">>), Plain(domain, <<"jobs">>)>>

\* the URL lists a sitemap.xml may hold
Sitemaps == {<<>>, <<Url(CrawlDomain, <<"careers">>, TRUE, ""), UJob1>>}

\* discovery.parse_sitemap(xml, base_url, max_urls)
parse_sitemap(urls, max_urls) == Take(urls, max_urls)

\* generic_html.discover_job_links: the targets of the hinted anchors, each once
discover_job_links(page) ==
    Dedupe([i \in DOMAIN SelectIdx(page.links, 1, [k \in DOMAIN page.links |-> page.links[k].hinted])
               |-> SelectIdx(page.links, 1, [k \in DOMAIN page.links |-> page.links[k].hinted])[i].target],
           {})

\* discovery.filter_discovery_results: the candidate links of a fetched page
filter_discovery_results(page) == discover_job_links(page)

\* ats.detect_ats(url, html)
detect_ats(page) == page.ats

LISTING_PATHS == {<<"jobs">>, <<"careers">>, <<"positions">>, <<"open-positions">>,
                  <<"rekry">>, <<"tyopaikat">>, <<"ura">>}
NON_JOB_PATH_HINTS == {"people", "team", "privacy", "terms", "about", "contact"}
NON_JOB_QUERY_HINTS == {"department_id", "team_id", "category"}

\* generic_html._is_listing_url
_is_listing_url(u) == u.path \in LISTING_PATHS

\* generic_html._is_non_job_url
_is_non_job_url(u) ==
    \/ \E k \in DOMAIN u.path : u.path[k] \in NON_JOB_PATH_HINTS
    \/ u.query \in NON_JOB_QUERY_HINTS

\* generic_html._is_cookie_consent_page
_is_cookie_consent_page(page) == page.consent

\* url.rstrip("/")
RstripSlash(u) == IF u.query = "" THEN [u EXCEPT !.slash = FALSE] ELSE u

\* job_title: a text taken from the page, or the final URL when the page
\* has no heading
TextTitle(text) == [text |-> text, url |-> <<>>]
UrlTitle(u) == [text |-> "", url |-> <<u>>]

Posting(company, title, u, source) ==
    [company_business_id |-> company.business_id, company_domain |-> company.domain,
     job_title |-> title, job_url |-> u, source |-> source]

\* extract.extract_jobs_from_jsonld: one posting per JobPosting object
extract_jobs_from_jsonld(page, final_url, company) ==
    [i \in DOMAIN page.jsonld |->
        Posting(company, TextTitle(page.jsonld[i].title), page.jsonld[i].url, "jsonld")]

\* mutant: the generic extractor runs on every fetched page
RunGenericAlways(jsonld_jobs) == TRUE

\* crawl_domain: "if jsonld_jobs: ... continue" skips the generic extractor
RunGeneric(jsonld_jobs) == jsonld_jobs = <<>>

\* mutant: a denied root is not terminal
BaseDeniedNever(verdict) == FALSE

\* crawl_domain: "if not allowed: ... return [], stats" at the domain root
BaseDenied(verdict) == ~verdict.allowed

\* crawl_domain: skipped_reason of a denied root
BaseSkipReason(rule) ==
    IF rule = "Disallow: /" THEN ROBOTS_DISALLOW_ALL ELSE ROBOTS_DISALLOW_URL

NoStats == [domain |-> "", pages_fetched |-> 0, jobs_found |-> 0, extractor_used |-> <<>>,
            errors |-> <<>>, skipped_reason |-> "None", ats_detected |-> "None",
            ats_fetch_ok |-> FALSE, ats_fetch_reason |-> "None",
            robots_rule_hit |-> "None", first_blocked_url |-> <<>>]
\* the errors argument of extract_jobs_generic: None, or a list to append to
NoErrors == [given |-> FALSE, list |-> <<>>]
ErrorList == [given |-> TRUE, list |-> <<>>]

\* "if errors is not None: errors.append(tag)"
RecordError(errors, tag) ==
    IF errors.given THEN [errors EXCEPT !.list = Append(@, tag)] ELSE errors

NoGeneric == [active |-> FALSE, base |-> Plain("", <<>>), candidates |-> <<>>, k |-> 0,
              seen_detail |-> {}, jobs |-> <<>>, errors |-> NoErrors, log |-> <<>>]

\* extract_jobs_generic on entry: the candidates of the listing page; log
\* tells what became of each candidate so far
ExtractCall(page, base, errors) ==
    [active |-> TRUE, base |-> base,
     candidates |-> Take(discover_job_links(page), max_detail_pages),
     k |-> 1, seen_detail |-> {}, jobs |-> <<>>, errors |-> errors, log |-> <<>>]

\* crawl_domain calls extract_jobs_generic without errors=
CrawlGenericErrors == NoErrors

\* whether the gate, as far as it has a ruling for the host of u, denies u
GateDenies(u) ==
    robots_cache[u.host].cached /\ ~can_fetch_detail(robots_cache[u.host], u).allowed

\* one HTTP request as it goes out: checked tells whether a robots check has
\* allowed exactly this URL, denied whether the gate's ruling denies it
Request(kind, u, checked) ==
    [kind |-> kind, url |-> u, checked |-> checked, denied |-> GateDenies(u)]

Company1 == [business_id |-> "1", domain |-> CrawlDomain]

\* the URL whose robots verdict crawl_domain asks for next, if any
NextChecked ==
    CASE pc = "base" -> <<base_url(crawlIn.domain)>>
      [] pc = "discovery" -> <<sitemap_url(crawlIn.domain)>>
      [] pc = "seed" /\ seedIdx <= Len(seeds) /\ stats.pages_fetched < crawlIn.max_pages
            -> <<seeds[seedIdx]>>
      [] OTHER -> <<>>

\* RobotsChecker.get_parser on a host not yet cached: robots.txt is requested
GetParser(out) ==
    /\ NextChecked # <<>>
    /\ ~robots_cache[NextChecked[1].host].cached
    /\ robots_cache' = [robots_cache EXCEPT ![NextChecked[1].host] = _fetch_parser(out)]
    /\ robots_fetch' = [robots_fetch EXCEPT ![NextChecked[1].host] = out.kind]
    /\ requests' = Append(requests, Request("robots", robots_url(NextChecked[1].host), TRUE))
    /\ UNCHANGED <<crawlIn, pc, stats, seeds, seedIdx, all_jobs, generic, allowedUrls,
                   extractLog, returned>>
    /\ UNCHANGED <<diffVars, fetchVars, fleetVars>>

\* crawl_domain: the robots check of the domain root
BaseRobots ==
    /\ pc = "base"
    /\ robots_cache[crawlIn.domain].cached
    /\ LET u == base_url(crawlIn.domain)
           v == can_fetch_detail(robots_cache[crawlIn.domain], u)
       IN  IF BaseDenied(v)
           THEN /\ stats' = [stats EXCEPT !.skipped_reason = BaseSkipReason(v.rule),
                                          !.robots_rule_hit = v.rule,
                                          !.first_blocked_url = <<u>>]
                /\ pc' = "done"
                /\ returned' = <<>>
                /\ UNCHANGED allowedUrls
           ELSE /\ pc' = "base_fetch"
                /\ allowedUrls' = IF v.allowed THEN allowedUrls \cup {u} ELSE allowedUrls
                /\ UNCHANGED <<stats, returned>>
    /\ UNCHANGED <<crawlIn, robots_cache, robots_fetch, seeds, seedIdx, all_jobs, generic,
                   requests, extractLog>>
    /\ UNCHANGED <<diffVars, fetchVars, fleetVars>>

\* mutant: a failed root fetch is not noticed
BaseFetchFailedNever(ans) == FALSE

\* crawl_domain: "if res is None" after the fetch of the domain root
BaseFetchFailed(ans) == ~ans.ok

\* crawl_domain: the fetch of the domain root and the ATS detection
BaseFetch(ans) ==
    /\ pc = "base_fetch"
    /\ LET u == base_url(crawlIn.domain)
       IN  /\ requests' = Append(requests, Request("root", u, u \in allowedUrls))
           /\ IF BaseFetchFailed(ans)
              THEN /\ stats' = [stats EXCEPT !.skipped_reason = ans.reason]
                   /\ pc' = "done"
                   /\ returned' = <<>>
              ELSE /\ stats' = [stats EXCEPT
                                  !.pages_fetched = @ + 1,
                                  !.ats_detected = IF detect_ats(ans.page) # "none"
                                                   THEN detect_ats(ans.page) ELSE @]
                   /\ pc' = IF detect_ats(ans.page) # "none" THEN "ats" ELSE "discovery"
                   /\ UNCHANGED returned
    /\ UNCHANGED <<crawlIn, robots_cache, robots_fetch, seeds, seedIdx, all_jobs, generic,
                   allowedUrls, extractLog>>
    /\ UNCHANGED <<diffVars, fetchVars, fleetVars>>

\* ats.fetch_ats_jobs(detected, company, crawl_ts) returns (jobs, reason):
\* the postings of the board, or none with the reason of the failure
AtsResult(jobs, reason) == [jobs |-> jobs, reason |-> reason]
AtsResults ==
    {AtsResult(<<Posting(Company1, TextTitle("Dev"), UBoardJob, "ats")>>, "None"),
     AtsResult(<<>>, "ats_no_jobs"), AtsResult(<<>>, "http_404")}

\* mutant: the adapter's postings are never taken as final
AtsSucceededNever(jobs) == FALSE

\* crawl_domain: "if jobs:" after fetch_ats_jobs
AtsSucceeded(jobs) == jobs # <<>>

\* crawl_domain: the ATS branch: the adapter asks the job board
AtsFetch(res) ==
    /\ pc = "ats"
    /\ requests' = Append(requests, Request("ats", UBoardJob, UBoardJob \in allowedUrls))
    /\ IF AtsSucceeded(res.jobs)
       THEN /\ stats' = [stats EXCEPT !.ats_fetch_ok = TRUE, !.jobs_found = Len(res.jobs),
                                      !.extractor_used = <<stats.ats_detected>>]
            /\ returned' = res.jobs
            /\ pc' = "done"
       ELSE /\ stats' = [stats EXCEPT !.ats_fetch_reason = res.reason]
            /\ pc' = "discovery"
            /\ UNCHANGED returned
    /\ UNCHANGED <<crawlIn, robots_cache, robots_fetch, seeds, seedIdx, all_jobs, generic,
                   allowedUrls, extractLog>>
    /\ UNCHANGED <<diffVars, fetchVars, fleetVars>>

\* crawl_domain: discover_paths, the sitemap's robots check and fetch, and
\* the de-duplication of the seed list
Discovery(ans, sm) ==
    /\ pc = "discovery"
    /\ robots_cache[crawlIn.domain].cached
    /\ LET u == sitemap_url(crawlIn.domain)
           v == can_fetch_detail(robots_cache[crawlIn.domain], u)
           got == v.allowed /\ ans.ok /\ ans.status = 200
           found == IF got THEN parse_sitemap(sm, SitemapMaxUrls) ELSE <<>>
       IN  /\ allowedUrls' = IF v.allowed THEN allowedUrls \cup {u} ELSE allowedUrls
           /\ requests' = IF v.allowed
                          THEN Append(requests, Request("sitemap", u, TRUE))
                          ELSE requests
           /\ stats' = [stats EXCEPT
                          !.errors = IF v.allowed THEN @
                                     ELSE Append(@, "robots_disallow_sitemap"),
                          !.pages_fetched = IF got THEN @ + 1 ELSE @]
           /\ seeds' = Dedupe(discover_paths(crawlIn.domain) \o found, {})
    /\ seedIdx' = 1
    /\ pc' = "seed"
    /\ UNCHANGED <<crawlIn, robots_cache, robots_fetch, all_jobs, generic, extractLog,
                   returned>>
    /\ UNCHANGED <<diffVars, fetchVars, fleetVars>>

\* mutant: a blocked or broken seed ends the loop
SeedBreak(idx, n) == n + 1

\* mutant: a blocked or broken seed is taken up again
SeedStay(idx, n) == idx

\* crawl_domain: "continue" after a blocked or broken seed: the loop goes to
\* the next of the n seeds
SeedContinue(idx, n) == idx + 1

\* crawl_domain: one iteration of "for seed in seeds" up to the call of the
\* generic extractor
SeedStep(ans) ==
    /\ pc = "seed"
    /\ seedIdx <= Len(seeds)
    /\ stats.pages_fetched < crawlIn.max_pages
    /\ robots_cache[seeds[seedIdx].host].cached
    /\ LET seed == seeds[seedIdx]
           v == can_fetch_detail(robots_cache[seed.host], seed)
           final_url == FinalUrl(ans, seed)
           jsonld_jobs == extract_jobs_from_jsonld(ans.page, final_url, crawlIn.company)
           unblocked == stats.first_blocked_url = <<>>
       IN  IF ~v.allowed
           THEN /\ stats' = [stats EXCEPT
                               !.errors = Append(@, ROBOTS_DISALLOW_URL),
                               !.first_blocked_url = IF unblocked THEN <<seed>> ELSE @,
                               !.robots_rule_hit = IF unblocked THEN v.rule ELSE @,
                               !.skipped_reason = IF unblocked /\ @ = "None"
                                                  THEN ROBOTS_DISALLOW_URL ELSE @]
                /\ seedIdx' = SeedContinue(seedIdx, Len(seeds))
                /\ UNCHANGED <<pc, seeds, all_jobs, generic, requests, allowedUrls, extractLog>>
           ELSE /\ allowedUrls' = allowedUrls \cup {seed}
                /\ requests' = Append(requests, Request("seed", seed, TRUE))
                /\ IF ~ans.ok
                   THEN /\ stats' = [stats EXCEPT !.errors = Append(@, ans.reason)]
                        /\ seedIdx' = SeedContinue(seedIdx, Len(seeds))
                        /\ UNCHANGED <<pc, seeds, all_jobs, generic, extractLog>>
                   ELSE /\ stats' = [stats EXCEPT
                                       !.pages_fetched = @ + 1,
                                       !.extractor_used = IF jsonld_jobs # <<>>
                                                          THEN Append(@, "jsonld") ELSE @]
                        /\ all_jobs' = all_jobs \o jsonld_jobs
                        /\ extractLog' = Append(extractLog,
                                                [url |-> seed, jsonld |-> Len(jsonld_jobs),
                                                 candidates |->
                                                     Len(discover_job_links(ans.page)),
                                                 generic |-> RunGeneric(jsonld_jobs),
                                                 consent |-> 0])
                        /\ IF RunGeneric(jsonld_jobs)
                           THEN /\ seeds' = seeds \o filter_discovery_results(ans.page)
                                /\ generic' = ExtractCall(ans.page, final_url,
                                                           CrawlGenericErrors)
                                /\ pc' = "generic"
                                /\ UNCHANGED seedIdx
                           ELSE /\ seedIdx' = seedIdx + 1
                                /\ UNCHANGED <<pc, seeds, generic>>
    /\ UNCHANGED <<crawlIn, robots_cache, robots_fetch, returned>>
    /\ UNCHANGED <<diffVars, fetchVars, fleetVars>>

\* extract_jobs_generic: the loop moves on from candidate u, which ended as
\* outcome, with the error tag recorded if there is one and a list to hold it
NextCandidate(g, u, outcome, tag) ==
    [g EXCEPT !.k = @ + 1,
              !.errors = IF tag = "" THEN @ ELSE RecordError(@, tag),
              !.log = Append(@, [url |-> u, outcome |-> outcome])]

\* how many candidates of a call ended as outcome
Outcomes_of(log, outcome) == Cardinality({i \in DOMAIN log : log[i].outcome = outcome})

\* extract_jobs_generic: one iteration of "for url in candidates"
DetailStep(ans) ==
    /\ pc \in {"generic", "extract"}
    /\ generic.k <= Len(generic.candidates)
    /\ LET u == generic.candidates[generic.k]
           normalized == RstripSlash(u)
           final_url == FinalUrl(ans, u)
           title == IF ans.page.h1 # "none" THEN TextTitle(ans.page.h1)
                    ELSE UrlTitle(final_url)
       IN  IF _is_listing_url(u)
           THEN /\ generic' = NextCandidate(generic, u, "listing", "listing_url_skipped")
                /\ UNCHANGED requests
           ELSE IF _is_non_job_url(u)
           THEN /\ generic' = NextCandidate(generic, u, "non_job", "non_job_url_skipped")
                /\ UNCHANGED requests
           ELSE IF normalized \in generic.seen_detail
           THEN /\ generic' = NextCandidate(generic, u, "seen", "")
                /\ UNCHANGED requests
           ELSE /\ requests' = Append(requests, Request("detail", u, u \in allowedUrls))
                /\ IF ~ans.ok
                   THEN generic' = NextCandidate(generic, u, "failed", "")
                   ELSE IF _is_cookie_consent_page(ans.page)
                   THEN generic' = NextCandidate(generic, u, "consent", "cookie_consent")
                   ELSE generic' = [NextCandidate(generic, u, "job", "") EXCEPT
                                      !.seen_detail = @ \cup {normalized},
                                      !.jobs = Append(@, Posting(crawlIn.company, title,
                                                                 final_url, "generic_html"))]
    /\ UNCHANGED <<crawlIn, pc, stats, robots_cache, robots_fetch, seeds, seedIdx, all_jobs,
                   allowedUrls, extractLog, returned>>
    /\ UNCHANGED <<diffVars, fetchVars, fleetVars>>

\* extract_jobs_generic called on its own: "return jobs"
ExtractReturn ==
    /\ pc = "extract"
    /\ generic.k > Len(generic.candidates)
    /\ returned' = generic.jobs
    /\ pc' = "extracted"
    /\ UNCHANGED <<crawlIn, stats, robots_cache, robots_fetch, seeds, seedIdx, all_jobs,
                   generic, requests, allowedUrls, extractLog>>
    /\ UNCHANGED <<diffVars, fetchVars, fleetVars>>

ExtractNext ==
    \/ \E ans \in DetailAnswers : DetailStep(ans)
    \/ ExtractReturn

\* crawl_domain: extract_jobs_generic has returned
GenericReturn ==
    /\ pc = "generic"
    /\ generic.k > Len(generic.candidates)
    /\ all_jobs' = all_jobs \o generic.jobs
    /\ stats' = [stats EXCEPT !.extractor_used = IF generic.jobs # <<>>
                                                  THEN Append(@, "generic") ELSE @]
    /\ extractLog' = [extractLog EXCEPT ![Len(extractLog)].consent =
                                         Outcomes_of(generic.log, "consent")]
    /\ generic' = NoGeneric
    /\ seedIdx' = seedIdx + 1
    /\ pc' = "seed"
    /\ UNCHANGED <<crawlIn, robots_cache, robots_fetch, seeds, requests, allowedUrls,
                   returned>>
    /\ UNCHANGED <<diffVars, fetchVars, fleetVars>>

\* crawl_domain: the seed loop ends (list exhausted or page budget spent)
CrawlReturn ==
    /\ pc = "seed"
    /\ seedIdx > Len(seeds) \/ stats.pages_fetched >= crawlIn.max_pages
    /\ stats' = [stats EXCEPT !.jobs_found = Len(all_jobs)]
    /\ returned' = all_jobs
    /\ pc' = "done"
    /\ UNCHANGED <<crawlIn, robots_cache, robots_fetch, seeds, seedIdx, all_jobs, generic,
                   requests, allowedUrls, extractLog>>
    /\ UNCHANGED <<diffVars, fetchVars, fleetVars>>

CrawlNext ==
    \/ \E out \in RobotsOutcomes : GetParser(out)
    \/ BaseRobots
    \/ \E ans \in RootAnswers : BaseFetch(ans)
    \/ \E res \in AtsResults : AtsFetch(res)
    \/ \E ans \in SitemapAnswers, sm \in Sitemaps : Discovery(ans, sm)
    \/ \E ans \in SeedAnswers : SeedStep(ans)
    \/ \E ans \in DetailAnswers : DetailStep(ans)
    \/ GenericReturn
    \/ CrawlReturn

(***************************************************************************)
(* crawl_jobs_pipeline: the fleet run over a bounded worker pool.          *)
(***************************************************************************)
MaxFetches == 2     \* fetch_url calls one domain task makes
MaxTicks == 2       \* seconds the fleet run's clock is let advance

\* a cell of the companies table that the file left empty: pandas reads it
\* as the float NaN, which is truthy and which str() turns into "nan"
NaN == "NaN"

\* bool(x) of a cell: None and "" are falsy, NaN and " " are not
Truthy(x) == x # ""

\* str(x) of a cell
PyStr(x) == IF x = NaN THEN "nan" ELSE x

\* the domains a fleet run can meet
FleetDomains == FetchDomains \cup {"nan"}

NoDomainMap == [b \in {"1", "2", "3", "", "nan"} |-> ""]
\* business id 2 is mapped to the domain company 1 names itself
DomainMap == [NoDomainMap EXCEPT !["2"] = "a.fi"]

Company(bid, dom) == [business_id |-> bid, domain |-> dom]
\* the company lists tried: two rows resolving to one domain; a row with no
\* resolvable domain between two that resolve; a row without business id;
\* rows with a blank domain; a row whose domain cell is empty in the file
CompanyLists ==
    {<<Company("1", "a.fi"), Company("2", "")>>,
     <<Company("1", "a.fi"), Company("3", ""), Company("", "b.fi")>>,
     <<Company("3", " "), Company("2", " "), Company("1", "a.fi")>>,
     <<Company("2", NaN), Company("1", "a.fi")>>}

FleetInputs ==
    [companies_df : CompanyLists, domain_map : {DomainMap}, max_domains : {1, 2},
     max_workers : {1, 2}, min_interval : {1}]

\* str.strip() on the strings the fleet inputs hold
StripStr(x) == IF x = " " THEN "" ELSE x

\* build_domain: the row's own domain, else the mapped one, stripped
build_domain(company_row, domain_map) ==
    LET bid == StripStr(PyStr(IF Truthy(company_row.business_id)
                              THEN company_row.business_id ELSE ""))
    IN  StripStr(PyStr(IF Truthy(company_row.domain)
                       THEN company_row.domain ELSE domain_map[bid]))

NoFleet == [pc |-> "submit", row |-> 1, processed |-> 0, jobs |-> <<>>, stats_rows |-> <<>>]
NoRequests == [d \in FleetDomains |-> [last |-> -1, prev |-> -1]]

\* rate_limit_state={} in the submit call: a fresh map for every task
TaskRateLimitState(shared) == [d \in FleetDomains |-> 0]

NewTask(company, domain) ==
    [company |-> company, domain |-> domain, st |-> "queued",
     rate_limit_state |-> TaskRateLimitState([d \in FleetDomains |-> 0]),
     wakeAt |-> -1, fetched |-> 0, jobs |-> 0, collected |-> FALSE,
     ruling |-> "none"]

Running == {t \in DOMAIN tasks : tasks[t].st = "running"}

\* one pass of the loop over companies_df.iterrows() that does not break
SubmitRow ==
    /\ fleet.pc = "submit"
    /\ fleet.row <= Len(fleetIn.companies_df)
    /\ fleet.processed < fleetIn.max_domains
    /\ LET row == fleetIn.companies_df[fleet.row]
           domain == build_domain(row, fleetIn.domain_map)
           company == [business_id |-> PyStr(IF Truthy(row.business_id)
                                             THEN row.business_id ELSE ""),
                       domain |-> domain]
       IN  IF domain = ""
           THEN /\ fleet' = [fleet EXCEPT !.row = @ + 1]
                /\ UNCHANGED tasks
           ELSE /\ tasks' = Append(tasks, NewTask(company, domain))
                /\ fleet' = [fleet EXCEPT !.row = @ + 1, !.processed = @ + 1]
    /\ UNCHANGED <<fleetIn, clock, domainReq>>
    /\ UNCHANGED <<robotsReq, diffVars, fetchVars, crawlVars>>

\* the loop's end: the rows are exhausted or processed >= max_domains
SubmitEnd ==
    /\ fleet.pc = "submit"
    /\ fleet.row > Len(fleetIn.companies_df) \/ fleet.processed >= fleetIn.max_domains
    /\ fleet' = [fleet EXCEPT !.pc = "collect"]
    /\ UNCHANGED <<fleetIn, tasks, clock, domainReq>>
    /\ UNCHANGED <<robotsReq, diffVars, fetchVars, crawlVars>>

\* a free worker of the pool takes the oldest queued task
TaskStart(t) ==
    /\ tasks[t].st = "queued"
    /\ \A u \in 1..(t - 1) : tasks[u].st # "queued"
    /\ Cardinality(Running) < fleetIn.max_workers
    /\ tasks' = [tasks EXCEPT ![t].st = "running"]
    /\ UNCHANGED <<fleetIn, fleet, clock, domainReq>>
    /\ UNCHANGED <<robotsReq, diffVars, fetchVars, crawlVars>>

\* crawl_domain in a task: robots_checker = RobotsChecker() is a new gate
\* with an empty cache, and the check of the domain root makes it request
\* the domain's robots.txt; the ruling is what this request brought
TaskRobots(t, allowed) ==
    /\ tasks[t].st = "running"
    /\ tasks[t].ruling = "none"
    /\ tasks' = [tasks EXCEPT ![t].ruling = IF allowed THEN "allowed" ELSE "denied"]
    /\ robotsReq' = [robotsReq EXCEPT ![tasks[t].domain] = @ + 1]
    /\ UNCHANGED <<fleetIn, fleet, clock, domainReq>>
    /\ UNCHANGED <<diffVars, fetchVars, crawlVars>>

\* fetch_url in a task, up to its rate-limit sleep
TaskFetchBegin(t) ==
    /\ tasks[t].st = "running"
    /\ tasks[t].ruling = "allowed"
    /\ tasks[t].wakeAt = -1
    /\ tasks[t].fetched < MaxFetches
    /\ tasks' = [tasks EXCEPT ![t].wakeAt =
                    clock + RateWait(fleetIn.min_interval, clock,
                                     tasks[t].rate_limit_state[tasks[t].domain])]
    /\ UNCHANGED <<fleetIn, fleet, clock, domainReq>>
    /\ UNCHANGED <<robotsReq, diffVars, fetchVars, crawlVars>>

\* fetch_url in a task, after the sleep: the request and the timestamp
TaskFetchSend(t) ==
    /\ tasks[t].st = "running"
    /\ tasks[t].wakeAt >= 0
    /\ clock >= tasks[t].wakeAt
    /\ domainReq' = [domainReq EXCEPT ![tasks[t].domain] =
                        [last |-> clock, prev |-> domainReq[tasks[t].domain].last]]
    /\ tasks' = [tasks EXCEPT ![t].wakeAt = -1, ![t].fetched = @ + 1,
                              ![t].rate_limit_state[tasks[t].domain] = clock]
    /\ UNCHANGED <<fleetIn, fleet, clock>>
    /\ UNCHANGED <<robotsReq, diffVars, fetchVars, crawlVars>>

\* crawl_domain returns n postings and its stats
TaskFinish(t, n) ==
    /\ tasks[t].st = "running"
    /\ tasks[t].wakeAt = -1
    /\ tasks[t].ruling # "none"
    /\ tasks[t].ruling = "denied" => n = 0
    /\ tasks' = [tasks EXCEPT ![t].st = "done", ![t].jobs = n]
    /\ UNCHANGED <<fleetIn, fleet, clock, domainReq>>
    /\ UNCHANGED <<robotsReq, diffVars, fetchVars, crawlVars>>

\* an exception escapes crawl_domain in a worker (an OSError of the debug
\* dump in fetch_url, an error raised by a parser or an adapter): the future
\* holds the exception
TaskRaise(t) ==
    /\ tasks[t].st = "running"
    /\ tasks[t].wakeAt = -1
    /\ tasks' = [tasks EXCEPT ![t].st = "raised"]
    /\ UNCHANGED <<fleetIn, fleet, clock, domainReq>>
    /\ UNCHANGED <<robotsReq, diffVars, fetchVars, crawlVars>>

\* as_completed yields a future that holds an exception: fut.result()
\* raises it again and crawl_jobs_pipeline, which catches nothing, is left
CollectRaised(t) ==
    /\ fleet.pc = "collect"
    /\ tasks[t].st = "raised"
    /\ ~tasks[t].collected
    /\ tasks' = [tasks EXCEPT ![t].collected = TRUE]
    /\ fleet' = [fleet EXCEPT !.pc = "aborted"]
    /\ UNCHANGED <<fleetIn, clock, domainReq>>
    /\ UNCHANGED <<robotsReq, diffVars, fetchVars, crawlVars>>

\* one pass of the loop over as_completed(tasks)
Collect(t) ==
    /\ fleet.pc = "collect"
    /\ tasks[t].st = "done"
    /\ ~tasks[t].collected
    /\ tasks' = [tasks EXCEPT ![t].collected = TRUE]
    /\ fleet' = [fleet EXCEPT
                    !.jobs = @ \o [i \in 1..tasks[t].jobs |-> tasks[t].company],
                    !.stats_rows = Append(@, [domain |-> tasks[t].domain,
                                              jobs_found |-> tasks[t].jobs])]
    /\ UNCHANGED <<fleetIn, clock, domainReq>>
    /\ UNCHANGED <<robotsReq, diffVars, fetchVars, crawlVars>>

\* every future collected: the tables are built and returned
Finish ==
    /\ fleet.pc = "collect"
    /\ \A t \in DOMAIN tasks : tasks[t].collected
    /\ fleet' = [fleet EXCEPT !.pc = "done"]
    /\ UNCHANGED <<fleetIn, tasks, clock, domainReq>>
    /\ UNCHANGED <<robotsReq, diffVars, fetchVars, crawlVars>>

\* a second passes
Tick ==
    /\ fleet.pc \notin {"done", "aborted"}
    /\ clock < StartTime + MaxTicks
    /\ clock' = clock + 1
    /\ UNCHANGED <<fleetIn, fleet, tasks, domainReq>>
    /\ UNCHANGED <<robotsReq, diffVars, fetchVars, crawlVars>>

(***************************************************************************)
(* Inputs of apply_diff: rows of the postings table.                       *)
(***************************************************************************)
MaxSeed == 1        \* hash seeds 0..MaxSeed

TitleDev == <<"D", "e", "v">>
TitleDevSpaced == <<" ", "d", "e", "v", " ", " ">>
TitleQA == <<"Q", "A", "\t", " ", "d", "e", "v">>
LocOulu == <<"O", "u", "l", "u">>
LocOuluFinland == <<"O", "u", "l", "u", ",", " ", "F", "i", "n", "l", "a", "n", "d">>
Date2024 == <<"2", "0", "2", "4">>
DomainX == <<"x", ".", "f", "i">>

DiffRow(bid, url, title, loc) ==
    [company_business_id |-> bid, job_url |-> url, job_title |-> title,
     location_text |-> loc, posted_date |-> Date2024, company_domain |-> DomainX]

\* one job at its first URL; the same job, field for field, at a
\* tracking-parameter URL; the same job respelled (case, whitespace, country
\* suffix) at a third URL; another job published at the first URL
RowJob == DiffRow("1", "https://x.fi/jobs/42", TitleDev, LocOulu)
RowJobMoved == DiffRow("1", "https://x.fi/jobs/42?utm=ref", TitleDev, LocOulu)
RowJobRespelled == DiffRow("1", "https://x.fi/jobs/7", TitleDevSpaced, LocOuluFinland)
RowOther == DiffRow("2", "https://x.fi/jobs/42", TitleQA, None)

DiffRows == {RowJob, RowJobMoved, RowJobRespelled, RowOther}

\* the postings tables handed to apply_diff
DiffTables ==
    {<<>>, <<RowJob>>, <<RowJobMoved>>, <<RowJobRespelled>>, <<RowOther>>,
     <<RowJob, RowJobRespelled>>, <<RowJobMoved, RowOther>>, <<RowOther, RowJob>>}

\* fingerprint, tabulated over the rows and salts of the model
FingerprintTable == [s \in 0..MaxSeed, r \in DiffRows |-> fingerprintOf(s, r)]
fingerprint(seed, row) == FingerprintTable[seed, row]

NoFile == [exists |-> FALSE, rows |-> <<>>]
File(rows) == [exists |-> TRUE, rows |-> rows]

NoCall == [called |-> FALSE, P |-> <<>>, known_urls |-> {}, known_fps |-> {},
           jobs_df |-> <<>>, new_jobs |-> <<>>, written |-> <<>>, seed |-> 0]
NoPrev == [called |-> FALSE, P |-> <<>>, written |-> <<>>, seed |-> 0]
NoActivity == [produced |-> FALSE, rows |-> <<>>]

\* jobs_df["job_fingerprint"] = jobs_df.apply(fingerprint, axis=1)
WithFingerprint(seed, P) ==
    [i \in DOMAIN P |->
        [job_url |-> P[i].job_url, job_title |-> P[i].job_title,
         location_text |-> P[i].location_text, posted_date |-> P[i].posted_date,
         company_domain |-> P[i].company_domain,
         job_fingerprint |-> fingerprint(seed, P[i])]]

\* the file apply_diff reads the known index from: known_path when it exists
\* (read_parquet; without an engine the fallbacks read no usable columns),
\* else the csv beside it when that exists
LoadKnown(parquet, csv, engine) ==
    IF parquet.exists
    THEN (IF engine THEN parquet.rows ELSE <<>>)
    ELSE (IF csv.exists THEN csv.rows ELSE <<>>)

\* mutant: the job_url column is not loaded
KnownUrlsNone(rows) == {}

\* known_urls = set(known_df["job_url"].astype(str))
KnownUrls(rows) == {rows[i].job_url : i \in DOMAIN rows}

\* known_fps = set(pd.to_numeric(known_df["job_fingerprint"]).dropna().astype(int))
KnownFps(rows) == {rows[i].job_fingerprint : i \in DOMAIN rows}

\* mutant: the two membership tests joined with "or"
IsNewAnyMiss(row, urls, fps) == ~(row.job_url \in urls) \/ ~(row.job_fingerprint \in fps)

\* jobs_df["is_new"] = ~url.isin(known_urls) & ~fingerprint.isin(known_fps)
IsNew(row, urls, fps) == ~(row.job_url \in urls) /\ ~(row.job_fingerprint \in fps)

\* jobs_df[["job_url", "job_fingerprint"]]
IndexRows(df) ==
    [i \in DOMAIN df |-> [job_url |-> df[i].job_url, job_fingerprint |-> df[i].job_fingerprint]]

\* mutant: the new rows appended to the old index
IndexAppend(old, df) == old \o IndexRows(df)

\* the rows written as the new known index: the current table only
IndexToWrite(old, df) == IndexRows(df)

\* a new execution of the program: a new interpreter with a new hash salt
NewProcess ==
    /\ \E s \in 0..MaxSeed : hashSeed' = s
    /\ UNCHANGED <<knownParquet, knownCsv, parquetEngine, diffCall, diffPrev,
                   activity_df>>
    /\ UNCHANGED <<fetchVars, fleetVars, crawlVars>>

\* the rows of a table that belong to one company: a group of
\* jobs_df.groupby("company_business_id")
GroupRows(df, bid) == {i \in DOMAIN df : df[i].company_business_id = bid}

\* summarize_activity(jobs_df): one row per company; the rows counted as new
\* are those whose is_new is True, and none when the table has no is_new
\* column
summarize_activity(df) ==
    [bid \in {df[i].company_business_id : i \in DOMAIN df} |->
        [job_count_total |-> Cardinality(GroupRows(df, bid)),
         job_count_new_since_last |->
            Cardinality({i \in GroupRows(df, bid) :
                            "is_new" \in DOMAIN df[i] /\ df[i].is_new}),
         recruiting_active |-> Cardinality(GroupRows(df, bid)) > 0]]

\* apply_diff(jobs_df, known_path)
ApplyDiffCall(P) ==
    /\ LET df == WithFingerprint(hashSeed, P)
           old == LoadKnown(knownParquet, knownCsv, parquetEngine)
           urls == KnownUrls(old)
           fps == KnownFps(old)
           marked == [i \in DOMAIN df |->
                        [job_url |-> df[i].job_url,
                         job_fingerprint |-> df[i].job_fingerprint,
                         is_new |-> IsNew(df[i], urls, fps)]]
           new == SelectIdx(marked, 1, [i \in DOMAIN marked |-> marked[i].is_new])
           out == IndexToWrite(old, df)
       IN  /\ diffCall' = [called |-> TRUE, P |-> P, known_urls |-> urls, known_fps |-> fps,
                           jobs_df |-> marked, new_jobs |-> new, written |-> out,
                           seed |-> hashSeed]
           /\ IF parquetEngine
              THEN knownParquet' = File(out) /\ UNCHANGED knownCsv
              ELSE knownCsv' = File(out) /\ UNCHANGED knownParquet
    /\ diffPrev' = [called |-> diffCall.called, P |-> diffCall.P,
                     written |-> diffCall.written, seed |-> diffCall.seed]
    /\ UNCHANGED <<parquetEngine, hashSeed>>
    /\ UNCHANGED <<fetchVars, fleetVars, crawlVars>>

\* apply_diff called on its own, as the tests call it: no activity summary
\* belongs to the call
ApplyDiff(P) ==
    /\ ApplyDiffCall(P)
    /\ activity_df' = NoActivity

\* one run of the jobs command over the postings P its crawl gathered:
\* crawl_jobs_pipeline ends by computing activity_df = summarize_activity(jobs_df)
\* on the table as the crawl built it, and returns; the command then calls
\* apply_diff on the returned jobs_df and writes the activity_df it was handed
RunJobs(P) ==
    /\ activity_df' = [produced |-> TRUE, rows |-> summarize_activity(P)]
    /\ ApplyDiffCall(P)

DiffNext ==
    \/ NewProcess
    \/ \E P \in DiffTables : ApplyDiff(P)
    \/ \E P \in DiffTables : RunJobs(P)

(***************************************************************************)
(* Initial states and specifications.                                      *)
(***************************************************************************)
DiffIdle ==
    /\ knownParquet = NoFile
    /\ knownCsv = NoFile
    /\ parquetEngine = TRUE
    /\ hashSeed = 0
    /\ diffCall = NoCall
    /\ diffPrev = NoPrev
    /\ activity_df = NoActivity

FetchIdle ==
    /\ now = StartTime
    /\ rate_limit_state = [d \in FetchDomains |-> 0]
    /\ minInterval = 1
    /\ fetch = NoFetch
    /\ fetchResult = NoResult
    /\ lastReq = [d \in FetchDomains |-> -1]
    /\ prevReq = [d \in FetchDomains |-> -1]
    /\ fetchCalls = 0

FleetIdle ==
    /\ fleetIn = [companies_df |-> <<>>, domain_map |-> NoDomainMap, max_domains |-> 0,
                  max_workers |-> 0, min_interval |-> 0]
    /\ fleet = NoFleet
    /\ tasks = <<>>
    /\ clock = 0
    /\ domainReq = NoRequests
    /\ robotsReq = [d \in FleetDomains |-> 0]

CrawlIdle ==
    /\ crawlIn = [company |-> Company1, domain |-> CrawlDomain, max_pages |-> 0]
    /\ pc = "idle"
    /\ stats = NoStats
    /\ robots_cache = [h \in Hosts |-> NoParser]
    /\ robots_fetch = [h \in Hosts |-> "none"]
    /\ seeds = <<>>
    /\ seedIdx = 0
    /\ all_jobs = <<>>
    /\ generic = NoGeneric
    /\ requests = <<>>
    /\ allowedUrls = {}
    /\ extractLog = <<>>
    /\ returned = <<>>

DiffInit ==
    /\ FleetIdle
    /\ CrawlIdle
    /\ knownParquet = NoFile
    /\ knownCsv = NoFile
    /\ parquetEngine \in BOOLEAN
    /\ hashSeed \in 0..MaxSeed
    /\ diffCall = NoCall
    /\ diffPrev = NoPrev
    /\ activity_df = NoActivity
    /\ FetchIdle

FleetInit ==
    /\ DiffIdle
    /\ CrawlIdle
    /\ FetchIdle
    /\ fleetIn \in FleetInputs
    /\ fleet = NoFleet
    /\ tasks = <<>>
    /\ clock = StartTime
    /\ domainReq = NoRequests
    /\ robotsReq = [d \in FleetDomains |-> 0]

FetchInit ==
    /\ DiffIdle
    /\ CrawlIdle
    /\ FleetIdle
    /\ now = StartTime
    /\ rate_limit_state = [d \in FetchDomains |-> 0]
    /\ minInterval \in MinIntervals
    /\ fetch = NoFetch
    /\ fetchResult = NoResult
    /\ lastReq = [d \in FetchDomains |-> -1]
    /\ prevReq = [d \in FetchDomains |-> -1]
    /\ fetchCalls = 0

SpecDiff == DiffInit /\ [][DiffNext]_vars

\* the fleet run: the main thread, the pool's workers, the clock
FleetNext ==
    \/ SubmitRow
    \/ SubmitEnd
    \/ \E t \in DOMAIN tasks : TaskStart(t)
    \/ \E t \in DOMAIN tasks, a \in BOOLEAN : TaskRobots(t, a)
    \/ \E t \in DOMAIN tasks : TaskFetchBegin(t)
    \/ \E t \in DOMAIN tasks : TaskFetchSend(t)
    \/ \E t \in DOMAIN tasks, n \in 0..1 : TaskFinish(t, n)
    \/ \E t \in DOMAIN tasks : TaskRaise(t)
    \/ \E t \in DOMAIN tasks : Collect(t)
    \/ \E t \in DOMAIN tasks : CollectRaised(t)
    \/ Finish
    \/ Tick

SpecFleet == FleetInit /\ [][FleetNext]_vars

SpecFetch == FetchInit /\ [][FetchNext]_vars

\* fetch_url with progress: session.get is called with a timeout, so every
\* pass of the retry loop comes to its end
SpecFetchLive ==
    FetchInit /\ [][FetchNext]_vars
        /\ WF_vars(\E out \in Outcomes, l \in 0..1 : FetchAttempt(out, l))

\* one call of crawl_domain with a fresh RobotsChecker
Init ==
    /\ DiffIdle
    /\ FetchIdle
    /\ FleetIdle
    /\ crawlIn \in [company : {Company1}, domain : {CrawlDomain}, max_pages : 1..MaxPages]
    /\ pc = "base"
    /\ stats = [NoStats EXCEPT !.domain = CrawlDomain]
    /\ robots_cache = [h \in Hosts |-> NoParser]
    /\ robots_fetch = [h \in Hosts |-> "none"]
    /\ seeds = <<>>
    /\ seedIdx = 0
    /\ all_jobs = <<>>
    /\ generic = NoGeneric
    /\ requests = <<>>
    /\ allowedUrls = {}
    /\ extractLog = <<>>
    /\ returned = <<>>

Next == CrawlNext

\* one call of extract_jobs_generic on a listing page, with or without an
\* errors list
ExtractInit ==
    /\ DiffIdle
    /\ FetchIdle
    /\ FleetIdle
    /\ crawlIn = [company |-> Company1, domain |-> CrawlDomain, max_pages |-> 0]
    /\ pc = "extract"
    /\ stats = NoStats
    /\ robots_cache = [h \in Hosts |-> NoParser]
    /\ robots_fetch = [h \in Hosts |-> "none"]
    /\ seeds = <<>>
    /\ seedIdx = 0
    /\ all_jobs = <<>>
    /\ generic \in {ExtractCall(p, UCareers, e) : p \in ListingPages, e \in {NoErrors, ErrorList}}
    /\ requests = <<>>
    /\ allowedUrls = {}
    /\ extractLog = <<>>
    /\ returned = <<>>

SpecExtract == ExtractInit /\ [][ExtractNext]_vars

Spec == Init /\ [][Next]_vars

\* crawl_domain with progress: the function is sequential code and each of
\* its requests is made with a timeout, so every step comes to its end
SpecLive == Init /\ [][Next]_vars /\ WF_vars(Next)

(***************************************************************************)
(* Claims about apply_diff (checked under SpecDiff).                       *)
(***************************************************************************)
\* the index file contents as persisted before the last call: what the
\* call before it wrote, or nothing
PersistedBefore == IF diffPrev.called THEN diffPrev.written ELSE <<>>

PairsOf(rows) == {<<rows[i].job_url, rows[i].job_fingerprint>> : i \in DOMAIN rows}

\* C6: apply_diff marks a row is_new exactly when neither its job_url nor
\* its fingerprint occurs in the index persisted before the call, and the
\* returned new-postings table is exactly the rows marked is_new, in order.
C6_IsNewIffUnknown ==
    diffCall.called =>
        /\ \A i \in DOMAIN diffCall.jobs_df :
              diffCall.jobs_df[i].is_new <=>
                  /\ \A k \in DOMAIN PersistedBefore :
                        PersistedBefore[k].job_url # diffCall.jobs_df[i].job_url
                  /\ \A k \in DOMAIN PersistedBefore :
                        PersistedBefore[k].job_fingerprint
                            # diffCall.jobs_df[i].job_fingerprint
        /\ diffCall.new_jobs =
              SelectIdx(diffCall.jobs_df, 1,
                        [i \in DOMAIN diffCall.jobs_df |-> diffCall.jobs_df[i].is_new])

\* a call over a non-empty index that marks one row new and another not new
C6_Witness ==
    /\ diffCall.called /\ diffPrev.called /\ diffPrev.written # <<>>
    /\ \E i, j \in DOMAIN diffCall.jobs_df :
          diffCall.jobs_df[i].is_new /\ ~diffCall.jobs_df[j].is_new

\* C7: diff idempotence: a call that gets the postings table of the call
\* before it, and the index that call wrote, returns no new postings.
C7_Idempotent ==
    (diffCall.called /\ diffPrev.called /\ diffCall.P = diffPrev.P)
        => diffCall.new_jobs = <<>>

\* the same non-empty table twice, the second time in another process
C7_Witness ==
    /\ diffCall.called /\ diffPrev.called
    /\ diffCall.P = diffPrev.P /\ diffCall.P # <<>>
    /\ diffCall.seed # diffPrev.seed
    /\ diffCall.new_jobs = <<>>

SameContent(r, q) ==
    /\ r.job_title = q.job_title /\ r.location_text = q.location_text
    /\ r.posted_date = q.posted_date /\ r.company_domain = q.company_domain

\* C8: a posting seen in one run and seen again in the next run at another
\* URL with identical title, location, posted date and domain is marked
\* not new in that next run.
C8_SameJobOtherUrlNotNew ==
    (diffCall.called /\ diffPrev.called) =>
        \A i \in DOMAIN diffCall.P : \A j \in DOMAIN diffPrev.P :
            (SameContent(diffCall.P[i], diffPrev.P[j])
                /\ diffCall.P[i].job_url # diffPrev.P[j].job_url)
            => ~diffCall.jobs_df[i].is_new

\* C9: after apply_diff the index the next run loads holds exactly the
\* (job_url, fingerprint) pairs of the table just diffed; nothing of the
\* index before it is carried over.
C9_IndexReplaced ==
    diffCall.called =>
        PairsOf(LoadKnown(knownParquet, knownCsv, parquetEngine))
            = {<<diffCall.P[i].job_url, fingerprint(diffCall.seed, diffCall.P[i])>> :
                  i \in DOMAIN diffCall.P}

\* a call whose table lacks a URL the index before it knew
C9_Witness ==
    /\ diffCall.called /\ diffPrev.called
    /\ \E k \in DOMAIN diffPrev.written :
          \A i \in DOMAIN diffCall.P : diffCall.P[i].job_url # diffPrev.written[k].job_url
    /\ diffCall.P # <<>>

(***************************************************************************)
(* Claims about fetch_url (checked under SpecFetch).                       *)
(***************************************************************************)
\* C4: any two consecutive HTTP requests sent to one domain by fetch_url
\* calls sharing one rate-limit map are at least 1/req_per_second_per_domain
\* apart, retries and requests after a failed call included.
C4_RequestsSpaced ==
    \A d \in FetchDomains :
        prevReq[d] >= 0 => lastReq[d] - prevReq[d] >= minInterval

(***************************************************************************)
(* Claims about crawl_jobs_pipeline (checked under SpecFleet).             *)
(***************************************************************************)
\* C5: in a fleet run the requests that all tasks together send to one
\* domain are at least 1/req_per_second apart, also when two company rows
\* resolve to the same domain and their crawls run in different workers.
C5_FleetRequestsSpaced ==
    \A d \in FetchDomains :
        domainReq[d].prev >= 0 =>
            domainReq[d].last - domainReq[d].prev >= fleetIn.min_interval


(***************************************************************************)
(* Claims about crawl_domain and the robots gate (Spec).                   *)
(***************************************************************************)
RootVerdict == can_fetch_detail(robots_cache[crawlIn.domain], base_url(crawlIn.domain))
PageKinds == {"root", "sitemap", "seed", "detail"}
FailedRobotsFetches == {"exception", "http_403", "http_404", "http_503"}
HostUrls(h) == {u \in {UCareers, UJobs, UJob1, UJob1Slash, UJobsDept, UTeam, UBoardJob,
                      base_url(h), sitemap_url(h)} : u.host = h}

\* C1: when the robots ruling for the domain root is the blanket deny (the
\* gate answers the root with rule "Disallow: /"), crawl_domain returns no
\* posting, skipped_reason is "Disallow: /", first_blocked_url is the domain
\* root, and the only request of the crawl is the one for robots.txt.
C1_BlanketDenyTerminal ==
    (robots_cache[crawlIn.domain].cached /\ RootVerdict.rule = "Disallow: /") =>
        /\ pc \in {"base", "done"}
        /\ returned = <<>>
        /\ \A i \in DOMAIN requests : requests[i].kind = "robots"
        /\ pc = "done" =>
              /\ stats.skipped_reason = "Disallow: /"
              /\ stats.first_blocked_url = <<base_url(crawlIn.domain)>>
              /\ stats.jobs_found = 0

C1_Witness ==
    /\ pc = "done"
    /\ robots_cache[crawlIn.domain].cached
    /\ RootVerdict.rule = "Disallow: /"
    /\ stats.skipped_reason = "Disallow: /"
    /\ Len(requests) = 1
    /\ requests[1].kind = "robots"
    /\ requests[1].url = robots_url(crawlIn.domain)
    /\ returned = <<>>

\* C2: the robots gate is fail-closed: for every host whose robots.txt
\* request failed, in whatever way, the host is marked unavailable and the
\* gate answers (denied, robots_unavailable) for every URL of the host.
C2_FailClosed ==
    \A h \in Hosts :
        robots_fetch[h] \in FailedRobotsFetches =>
            /\ robots_cache[h].apprscan_error
            /\ \A u \in HostUrls(h) :
                  can_fetch_detail(robots_cache[h], u) =
                      [allowed |-> FALSE, rule |-> "robots_unavailable"]

\* C3: during one domain crawl no URL that the robots gate denies is
\* requested: each request for a root page, a sitemap, a seed or a detail
\* page follows a robots check that allowed exactly that URL.
C3_NoDeniedUrlRequested ==
    \A i \in DOMAIN requests :
        requests[i].kind \in PageKinds => (requests[i].checked /\ ~requests[i].denied)

\* C10: for every fetched seed page from which JSON-LD extraction yielded at
\* least one posting, the generic extractor is not run on that page.
C10_JsonLdSuppressesGeneric ==
    /\ \A i \in DOMAIN extractLog : extractLog[i].jsonld > 0 => ~extractLog[i].generic
    /\ pc = "generic" => extractLog[Len(extractLog)].jsonld = 0
    /\ \A i \in DOMAIN requests :
          requests[i].kind = "detail" => \E j \in DOMAIN extractLog : extractLog[j].jsonld = 0

C10_Witness ==
    /\ pc = "done"
    /\ \E i \in DOMAIN extractLog :
          /\ extractLog[i].jsonld > 0
          /\ extractLog[i].candidates > 0
          /\ ~extractLog[i].generic
    /\ \E i \in DOMAIN returned : returned[i].source = "jsonld"

\* C11: a detail page classified as a cookie-consent wall contributes no
\* posting, and each such rejection leaves an error entry cookie_consent in
\* the CrawlStats.errors of the crawl that fetched the page.
C11_ConsentRecorded ==
    /\ pc \in {"generic", "extract"} =>
          Len(generic.jobs) = Outcomes_of(generic.log, "job")
    /\ pc = "done" =>
          \A i \in DOMAIN extractLog :
              extractLog[i].consent > 0 => "cookie_consent" \in SeqToSet(stats.errors)

\* C12: a detail-page candidate /jobs?department_id=3 is filtered out before
\* any fetch, is never requested, and is recorded with the error tag
\* non_job_url_skipped (in the errors list the caller supplied).
C12_FacetedViewSkipped ==
    \A i \in DOMAIN generic.log :
        generic.log[i].url = UJobsDept =>
            /\ generic.log[i].outcome \in {"listing", "non_job"}
            /\ \A k \in DOMAIN requests : requests[k].url # UJobsDept
            /\ generic.errors.given =>
                  "non_job_url_skipped" \in SeqToSet(generic.errors.list)

\* C13: when robots.txt disallows /careers, the seed list is /careers and
\* /jobs, and /jobs is fetched and yields one structured posting, the crawl
\* ends with pages_fetched = 1, jobs_found = 1 and exactly one error entry.
C13_BlockedCareersScenario ==
    (/\ pc = "done"
     /\ robots_fetch[crawlIn.domain] = "parsed"
     /\ robots_cache[crawlIn.domain].rules = {<<"careers">>}
     /\ seeds = <<UCareers, UJobs>>
     /\ \E i \in DOMAIN extractLog : extractLog[i].url = UJobs /\ extractLog[i].jsonld = 1)
    => /\ stats.pages_fetched = 1
       /\ stats.jobs_found = 1
       /\ Len(stats.errors) = 1

\* C14: if the fetch of the domain root fails for a transport reason, the
\* crawl ends there: it returns no posting, jobs_found is 0, skipped_reason
\* is that reason, and no request follows the one for the root.
C14_RootFailureTerminal ==
    /\ [][\A ans \in RootAnswers :
            (BaseFetch(ans) /\ ~ans.ok) =>
                /\ pc' = "done"
                /\ returned' = <<>>
                /\ stats'.jobs_found = 0
                /\ stats'.pages_fetched = 0
                /\ stats'.skipped_reason = ans.reason]_vars
    /\ [](stats.skipped_reason \in FailReasons =>
            /\ pc = "done"
            /\ requests[Len(requests)].kind = "root"
            /\ \A i \in DOMAIN requests : requests[i].kind \in {"robots", "root"})

C14_Witness ==
    /\ pc = "done"
    /\ stats.skipped_reason = "max_retries_exceeded"
    /\ returned = <<>>
    /\ Len(requests) = 2
    /\ requests[2].kind = "root"

\* C15: when the root page matches an ATS: if the adapter returns postings,
\* crawl_domain returns exactly those with ats_fetch_ok set and runs no
\* discovery (no sitemap request, no seed checked or fetched); if it returns
\* none, the reason is recorded, ats_fetch_ok stays false and the crawl goes
\* on into discovery and the seed loop.
C15_AtsBranch ==
    /\ [][\A res \in AtsResults :
            AtsFetch(res) =>
                IF res.jobs # <<>>
                THEN /\ pc' = "done"
                     /\ returned' = res.jobs
                     /\ stats'.ats_fetch_ok
                     /\ stats'.jobs_found = Len(res.jobs)
                ELSE /\ pc' = "discovery"
                     /\ ~stats'.ats_fetch_ok
                     /\ stats'.ats_fetch_reason = res.reason]_vars
    /\ [](stats.ats_fetch_ok =>
            /\ pc = "done"
            /\ seeds = <<>>
            /\ allowedUrls = {base_url(crawlIn.domain)}
            /\ \A i \in DOMAIN requests : requests[i].kind \in {"robots", "root", "ats"})
    /\ []((stats.ats_fetch_reason # "None" /\ pc = "done") =>
            (~stats.ats_fetch_ok /\ seeds # <<>>))

C15_Witness ==
    /\ pc = "done"
    /\ stats.ats_detected = "greenhouse"
    /\ stats.ats_fetch_reason = "ats_no_jobs"
    /\ ~stats.ats_fetch_ok
    /\ \E i \in DOMAIN requests : requests[i].kind = "seed"

\* the seeds the loop has taken up so far
ProcessedSeeds == IF pc = "generic" THEN 1..seedIdx ELSE 1..(seedIdx - 1)
SeedAllowed(k) == can_fetch_detail(robots_cache[seeds[k].host], seeds[k]).allowed
SeedRequests == {i \in DOMAIN requests : requests[i].kind = "seed"}

\* C16: in the seed loop a robots denial or a fetch failure of a seed adds
\* one error entry and the loop goes on with the next seed: every seed taken
\* up was robots-checked and, if allowed, requested; each fetched page was
\* extracted; and the loop ends only when the seeds or the page budget are
\* used up.
C16_SeedErrorsDoNotAbort ==
    /\ [][\A ans \in SeedAnswers :
            (SeedStep(ans) /\ (~SeedAllowed(seedIdx) \/ ~ans.ok)) =>
                /\ pc' = "seed"
                /\ seedIdx' = seedIdx + 1
                /\ Len(stats'.errors) = Len(stats.errors) + 1
                /\ stats'.errors[Len(stats'.errors)] =
                      (IF ~SeedAllowed(seedIdx) THEN ROBOTS_DISALLOW_URL ELSE ans.reason)]_vars
    /\ [](pc \in {"seed", "generic", "done"} =>
            /\ \A k \in ProcessedSeeds :
                  /\ robots_cache[seeds[k].host].cached
                  /\ SeedAllowed(k) =>
                        \E i \in SeedRequests : requests[i].url = seeds[k]
            /\ Cardinality({i \in DOMAIN stats.errors : stats.errors[i] = ROBOTS_DISALLOW_URL})
                  = Cardinality({k \in ProcessedSeeds : ~SeedAllowed(k)})
            /\ Cardinality(SeedRequests) = Cardinality({k \in ProcessedSeeds : SeedAllowed(k)})
            /\ Len(extractLog) + Cardinality({i \in DOMAIN stats.errors :
                                                 stats.errors[i] \in FailReasons})
                  = Cardinality(SeedRequests)
            /\ (pc = "done" /\ seeds # <<>>) =>
                  (seedIdx > Len(seeds) \/ stats.pages_fetched >= crawlIn.max_pages))

\* a blocked seed and a broken seed, and a later seed fetched and extracted
C16_Witness ==
    /\ pc = "done"
    /\ \E a, b, c \in ProcessedSeeds :
          /\ a < c /\ b < c
          /\ ~SeedAllowed(a)
          /\ SeedAllowed(b) /\ "http_404" \in SeqToSet(stats.errors)
          /\ extractLog # <<>> /\ extractLog[Len(extractLog)].url = seeds[c]

\* C17: pages_fetched never exceeds max_pages, and the number of page
\* requests of the crawl (root, sitemap, seeds, detail pages) is bounded by
\* max_pages.
C17_PageBudget ==
    /\ stats.pages_fetched <= crawlIn.max_pages
    /\ Cardinality({i \in DOMAIN requests : requests[i].kind \in PageKinds})
          <= crawlIn.max_pages

\* C18: no failure inside one domain task aborts the batch: whatever the
\* task does, an escaping exception included, crawl_jobs_pipeline is not
\* left by an exception, and when it returns the stats table holds one row
\* for every submitted task.
C18_BatchSurvivesTaskFailure ==
    /\ fleet.pc # "aborted"
    /\ fleet.pc = "done" => Len(fleet.stats_rows) = Len(tasks)

\* what the rule "explicit domain, else lookup-table domain" gives for a row
\* (a cell that is empty, blank or missing holds no domain)
HasValue(x) == x \notin {"", " ", NaN}
ResolvedDomain(row, domain_map) ==
    IF HasValue(row.domain) THEN row.domain
    ELSE IF HasValue(row.business_id) THEN domain_map[row.business_id] ELSE ""
ResolvableRows ==
    SelectIdx(fleetIn.companies_df, 1,
              [i \in DOMAIN fleetIn.companies_df |->
                  ResolvedDomain(fleetIn.companies_df[i], fleetIn.domain_map) # ""])

\* C19: each company row is resolved to its explicit domain, else to the
\* lookup-table domain; rows without a resolvable domain are skipped and do
\* not count against the cap; a domain crawl is run for exactly the first
\* min(max_domains, number of resolvable rows) such rows, in list order.
C19_DomainsResolvedAndCapped ==
    fleet.pc # "submit" =>
        [t \in DOMAIN tasks |-> tasks[t].domain]
            = [i \in DOMAIN Take(ResolvableRows, fleetIn.max_domains) |->
                  ResolvedDomain(ResolvableRows[i], fleetIn.domain_map)]

(***************************************************************************)
(* Claims about the activity summary of a run (checked under SpecDiff).    *)
(***************************************************************************)
\* the postings of company bid that the last apply_diff call marked is_new
MarkedNew(bid) ==
    {i \in DOMAIN diffCall.jobs_df :
        diffCall.P[i].company_business_id = bid /\ diffCall.jobs_df[i].is_new}

\* C20: the activity summary a run produces is computed after the diff: for
\* every company with postings in the run, job_count_new_since_last equals
\* the number of that company's postings apply_diff marked is_new in the
\* same run.
C20_ActivityCountsNewPostings ==
    activity_df.produced =>
        \A bid \in {diffCall.P[i].company_business_id : i \in DOMAIN diffCall.P} :
            /\ bid \in DOMAIN activity_df.rows
            /\ activity_df.rows[bid].job_count_new_since_last
                  = Cardinality(MarkedNew(bid))

(***************************************************************************)
(* Claims about the merged postings table (checked under SpecFleet).       *)
(***************************************************************************)
\* C21: every posting in the merged postings table of a fleet run carries a
\* non-empty company_business_id and a non-empty company_domain, also for
\* rows whose business id is missing but whose domain resolves.
C21_PostingsCarryCompany ==
    \A i \in DOMAIN fleet.jobs :
        /\ fleet.jobs[i].business_id # ""
        /\ fleet.jobs[i].domain # ""

(***************************************************************************)
(* Claims about the retry loop of fetch_url (checked under SpecFetch).     *)
(***************************************************************************)
\* C22: when every attempt of a fetch_url call fails at network level the
\* call sends exactly max_retries requests and returns max_retries_exceeded;
\* and a call that returns max_retries_exceeded did not end on an HTTP
\* response: its last attempt raised.
C22_NetworkFailuresExhaustRetries ==
    fetchResult.done =>
        /\ (fetchResult.sent > 0 /\ fetchResult.errs = fetchResult.sent) =>
                /\ fetchResult.sent = max_retries
                /\ fetchResult.reason = <<"max_retries_exceeded", 0>>
        /\ fetchResult.reason = <<"max_retries_exceeded", 0>> =>
                /\ fetchResult.status = NetErr.status
                /\ fetchResult.errs >= 1
                /\ ~fetchResult.ok

\* a call whose three attempts all raised has returned
C22_Witness ==
    /\ fetchResult.done
    /\ fetchResult.errs = max_retries
    /\ fetchResult.sent = max_retries
    /\ fetchResult.reason = <<"max_retries_exceeded", 0>>

(***************************************************************************)
(* Further claims about the robots gate and crawl_domain (Spec).           *)
(***************************************************************************)
\* C23: when a host's robots.txt was fetched and parsed and holds the
\* blanket rule "Disallow: /" for every agent, the gate denies every URL of
\* the host with rule "Disallow: /", and a crawl of that domain ends with
\* skipped_reason = "Disallow: /".
C23_ParsedBlanketDisallow ==
    \A h \in Hosts :
        (robots_fetch[h] = "parsed" /\ <<>> \in robots_cache[h].rules) =>
            /\ \A u \in HostUrls(h) :
                  can_fetch_detail(robots_cache[h], u)
                      = [allowed |-> FALSE, rule |-> "Disallow: /"]
            /\ (h = crawlIn.domain /\ pc = "done") =>
                  stats.skipped_reason = ROBOTS_DISALLOW_ALL

\* 2^n
Pow2(n) == IF n = 0 THEN 1 ELSE IF n = 1 THEN 2 ELSE IF n = 2 THEN 4 ELSE 8

\* the sleeps before successive retries are 1 s, 2 s, 4 s, ...
Doubling(waits) == \A k \in DOMAIN waits : waits[k] = InitialBackoff * Pow2(k - 1)

TerminalStatus(status) == 400 <= status /\ status <= 499 /\ status # 429
RetryableStatus(status) == status = 429 \/ (500 <= status /\ status <= 599)

\* C24: one fetch_url call sends at most max_retries requests and always
\* terminates; a 429 or 5xx response is retried while attempts remain, after
\* a sleep that doubles from retry to retry (1 s, 2 s, 4 s); a 4xx response
\* other than 429 ends the call at once with reason http_<code>.
C24_BoundedRetries ==
    /\ [](/\ fetch.sent <= max_retries /\ fetchResult.sent <= max_retries
          /\ Doubling(fetch.waits) /\ Doubling(fetchResult.waits)
          /\ Len(fetch.waits) = fetch.attempt)
    /\ [][\A out \in Outcomes, l \in 0..1 :
            (FetchAttempt(out, l) /\ ~out.err) =>
                /\ TerminalStatus(out.status) =>
                      /\ fetch'.pc = "idle"
                      /\ fetchResult'.done /\ ~fetchResult'.ok
                      /\ fetchResult'.reason = <<"http", out.status>>
                      /\ fetchResult'.sent = fetch.sent + 1
                /\ (RetryableStatus(out.status) /\ fetch.attempt + 1 < max_retries) =>
                      /\ fetch'.pc = "try"
                      /\ fetch'.attempt = fetch.attempt + 1
                      /\ fetch'.waits = Append(fetch.waits, fetch.backoff)
                      /\ now' = now + l + fetch.backoff
                      /\ UNCHANGED fetchResult]_vars
    /\ (fetch.pc = "try" ~> fetch.pc = "idle")

\* a call that was answered 503 twice and slept 1 s and 2 s is about to send
\* its third request
C24_Witness ==
    /\ fetch.pc = "try"
    /\ fetch.attempt = 2
    /\ fetch.errs = 0
    /\ fetch.waits = <<1, 2>>

\* whether the crawl recorded a robots denial: of the root (which ends the
\* crawl), of the sitemap, or of a seed
RootDenied == pc = "done" /\ stats.skipped_reason \in {ROBOTS_DISALLOW_ALL, ROBOTS_DISALLOW_URL}
                /\ stats.pages_fetched = 0 /\ stats.errors = <<>>
SitemapDenied == \E i \in DOMAIN stats.errors : stats.errors[i] = "robots_disallow_sitemap"
SeedDenied == \E i \in DOMAIN stats.errors : stats.errors[i] = ROBOTS_DISALLOW_URL

\* C25: within one crawl first_blocked_url and robots_rule_hit are written
\* at most once: they are set when the first URL is blocked by robots (the
\* root, the sitemap or a seed), keep that value however many later URLs
\* are blocked, and stay unset while no URL was blocked.
C25_FirstBlockedWrittenOnce ==
    /\ [][stats.first_blocked_url # <<>> =>
            /\ stats'.first_blocked_url = stats.first_blocked_url
            /\ stats'.robots_rule_hit = stats.robots_rule_hit]_vars
    /\ [](stats.first_blocked_url = <<>> => stats.robots_rule_hit = "None")
    /\ []((stats.first_blocked_url = <<>>) <=> ~(RootDenied \/ SitemapDenied \/ SeedDenied))
    /\ [](SitemapDenied => stats.first_blocked_url = <<sitemap_url(crawlIn.domain)>>)

\* C26: in one crawl no seed is processed more than once: no two seeds the
\* loop has taken up are equal after trimming trailing slashes, whether they
\* came from the fixed paths, the sitemap or the links of fetched pages.
C26_SeedsProcessedOnce ==
    pc \in {"seed", "generic", "done"} =>
        \A a, b \in ProcessedSeeds :
            a # b => RstripSlash(seeds[a]) # RstripSlash(seeds[b])

(***************************************************************************)
(* Further claims about extract_jobs_generic (checked under SpecExtract).  *)
(***************************************************************************)
\* C27: the postings one call of extract_jobs_generic returns have pairwise
\* distinct job_url values after trimming trailing slashes, whatever the
\* listing page links to and whatever the server answers.
C27_DistinctJobUrls ==
    pc = "extracted" =>
        \A i, j \in DOMAIN returned :
            i # j => RstripSlash(returned[i].job_url) # RstripSlash(returned[j].job_url)

(***************************************************************************)
(* Claims about the robots cache of a batch (checked under SpecFleet).     *)
(***************************************************************************)
\* C28: within one crawl batch the robots.txt of a domain is requested at
\* most once, and every crawl of the batch that needs a ruling for the
\* domain uses the same ruling.
C28_RobotsFetchedOncePerBatch ==
    /\ \A d \in FleetDomains : robotsReq[d] <= 1
    /\ \A t, u \in DOMAIN tasks :
          (tasks[t].domain = tasks[u].domain /\ tasks[t].ruling # "none"
              /\ tasks[u].ruling # "none") => tasks[t].ruling = tasks[u].ruling

(***************************************************************************)
(* Claims about the result of crawl_domain (checked under Spec).           *)
(***************************************************************************)
\* C29: when a domain crawl returns, skipped_reason is set only if the
\* domain yielded nothing: jobs_found > 0 implies that skipped_reason is
\* empty, also when a seed was blocked before another seed gave postings.
C29_SkippedOnlyWhenEmpty ==
    (pc = "done" /\ stats.jobs_found > 0) => stats.skipped_reason = "None"

\* the most seeds the list can start with, and the most links one fetched
\* page can add to it
InitialSeedsMost ==
    CHOOSE n \in 0..8 :
        /\ \A sm \in Sitemaps : Len(discover_paths(CrawlDomain)) + Len(sm) <= n
        /\ \E sm \in Sitemaps : Len(discover_paths(CrawlDomain)) + Len(sm) = n
LinksMost ==
    CHOOSE n \in 0..8 :
        /\ \A a \in SeedAnswers : Len(filter_discovery_results(a.page)) <= n
        /\ \E a \in SeedAnswers : Len(filter_discovery_results(a.page)) = n

=============================================================================
